---- MODULE Spec2Model ----
\* Model of the ML load-prediction service (src/ml-service/app.py).
\*
\* Numbers: every load, prediction, error and rmse is an integer counting
\* hundredths (0.01 req/hr), the resolution of the responses' round(x, 2).
\* Values that need not be whole hundredths are kept as exact fractions
\* (numerator over a stated denominator) and rounded where the code rounds.
EXTENDS Integers, Sequences, FiniteSets, TLC

\* ---------------------------------------------------------------- bounds
\* Capacity of the accuracy window: stands for the 1000 of app.py:287-288,
\* scaled down so that eviction happens within the explored runs.
MaxErrors == 2
\* accepted record_actual calls explored (the recorded history is kept)
MaxRecords == 4
\* successful predictions explored
MaxPredictions == 3
\* concurrent record_actual requests
NThreads == 2

\* ------------------------------------------------------ program constants
\* rmse used when no metadata is loaded (app.py:129)
DefaultRmse == 5000

\* ------------------------------------------------------------ input sets
FileStates == {"ok", "missing", "corrupt"}
\* rmse values a metadata file may hold (hundredths)
RmseValues == {2, 10}
\* what model.predict may return (opaque regressor), hundredths
Predictions == {-5, 3, 20, 40}
\* confidence levels, in percent (0.95 is 95)
ConfidenceLevels == {90, 95, 99}
\* loads a record_actual payload carries
PredictedLoads == {10}
ActualLoads == {10, 11}

Threads == 1..NThreads

\* ------------------------------------------------------------- helpers
Abs(x) == IF x < 0 THEN -x ELSE x

Max(a, b) == IF a >= b THEN a ELSE b

RECURSIVE Sum(_)
Sum(s) == IF s = <<>> THEN 0 ELSE Head(s) + Sum(Tail(s))

\* round(num/den, 2) in hundredths: nearest integer to num/den, ties to even
Round2(num, den) ==
    LET r == num % den
        q == (num - r) \div den
    IN  IF 2 * r < den THEN q
        ELSE IF 2 * r > den THEN q + 1
        ELSE IF q % 2 = 0 THEN q ELSE q + 1

\* s[-n:] for a list of length >= n
LastN(s, n) == SubSeq(s, Len(s) - n + 1, Len(s))

\* s[:n]
FirstN(s, n) == SubSeq(s, 1, n)

\* all lists over S of length at most n
SeqsUpTo(S, n) == UNION {[1..k -> S] : k \in 0..n}

VARIABLES
    files,              \* the artifact files on disk: model.pkl, scaler.pkl, model_metadata.json
    entry,              \* how the module runs: "main" (python app.py) or "wsgi" (imported app object)
    load_pc,            \* load_model(): "unloaded" (not run), "ready" (returned True), "failed" (False)
    model,              \* global model: "None" or "loaded"
    scaler,             \* global scaler: "None" or "loaded"
    model_metadata,     \* global model_metadata
    prediction_count,   \* global prediction_count
    prediction_errors,  \* global prediction_errors (the accuracy window)
    request_lacks,      \* whether the last request's body lacked a field its endpoint requires
    response,           \* the response of the last request handled
    recorded,           \* history: the errors of all accepted record_actual calls, in call order
    snapshot,           \* history: predictions_served of the latest metrics response
    ci,                 \* a direct call of calculate_confidence_interval: arguments and result
    pc,                 \* per request thread: position inside record_actual
    error,              \* per request thread: the local variable error
    sliced,             \* per request thread: the list built by prediction_errors[-1000:]
    start_window,       \* history: the window before the concurrent requests began
    count_read,         \* per request thread: the value of prediction_count read by += 1
    fx,                 \* a direct call of extract_features: arguments and result
    trained_order,      \* the feature order the model in model.pkl was fitted with
    np_state,           \* generate_data: position of numpy's global generator in its stream
    py_state,           \* generate_data: position of random's global generator in its stream
    runs,               \* generate_data: the finished calls of generate_training_data
    gen                 \* generate_data: the call of generate_training_data in progress

vars == <<files, entry, load_pc, model, scaler, model_metadata, prediction_count,
          prediction_errors, request_lacks, response, recorded, snapshot, ci, pc, error, sliced,
          start_window, count_read, fx, trained_order, np_state, py_state, runs, gen>>

loadVars == <<load_pc, model, scaler, model_metadata>>
threadVars == <<pc, error, sliced, start_window>>
genVars == <<np_state, py_state, runs, gen>>
\* what the service's sequential handlers and the record_actual threads never touch
otherVars == <<count_read, fx, trained_order, genVars>>

None == "None"
NoMetadata == [present |-> FALSE, rmse |-> 0]
NoResponse == [endpoint |-> "none", status |-> 0]
NoCI == [called |-> FALSE]

\* the metadata documents a file may hold, or its absence / corruption
MetadataFiles ==
    {[state |-> "missing", rmse |-> 0], [state |-> "corrupt", rmse |-> 0]}
        \cup {[state |-> "ok", rmse |-> r] : r \in RmseValues}

\* ---------------------------------------------------------- load_model
\* joblib.load behind the os.path.exists check: the object, or an exception
LoadArtifact_fallback(file) ==
    [raised |-> FALSE, value |-> IF file = "ok" THEN "loaded" ELSE "default"]

LoadArtifact(file) ==
    [raised |-> file # "ok", value |-> IF file = "ok" THEN "loaded" ELSE None]

\* load_model(), run once at startup: the globals it leaves and whether it
\* returned True ("ready") or False ("failed"). An exception leaves what was
\* assigned before it: a missing scaler leaves the model loaded.
load_model ==
    /\ load_pc = "unloaded"
    /\ LET m == LoadArtifact(files.model)
           sc == LoadArtifact(files.scaler)
       IN  IF m.raised
           THEN /\ load_pc' = "failed"
                /\ UNCHANGED <<model, scaler, model_metadata>>
           ELSE IF sc.raised
           THEN /\ load_pc' = "failed"
                /\ model' = m.value
                /\ UNCHANGED <<scaler, model_metadata>>
           ELSE IF files.metadata.state = "corrupt"
           THEN \* json.load raises
                /\ load_pc' = "failed"
                /\ model' = m.value
                /\ scaler' = sc.value
                /\ UNCHANGED model_metadata
           ELSE /\ load_pc' = "ready"
                /\ model' = m.value
                /\ scaler' = sc.value
                /\ model_metadata' =
                     [present |-> TRUE,
                      rmse |-> IF files.metadata.state = "missing" THEN 0
                               ELSE files.metadata.rmse]
    /\ UNCHANGED <<files, entry, prediction_count, prediction_errors, request_lacks,
                   response, recorded, snapshot, ci, threadVars, otherVars>>

\* The lifecycle of the trained model, read off load_model's outcome (Loading
\* is the inside of load_model, which runs before any request is served)
Lifecycle ==
    CASE load_pc = "unloaded" -> "Unloaded"
      [] load_pc = "ready" -> "Ready"
      [] load_pc = "failed" -> "Failed"

\* Requests reach the handlers: under python app.py only once load_model()
\* returned True (app.run); the imported app object serves in any state.
Serving == entry = "wsgi" \/ load_pc = "ready"

\* ------------------------------------------------------------ requests
\* required_fields of predict, in the order they are checked
RequiredFields == <<"current_time", "current_load", "historical_loads">>

\* current_time values: an ISO-8601 string (given by the calendar fields
\* datetime.fromisoformat reads off it) or a string it cannot parse
Times ==
    {[valid |-> TRUE, hour |-> 14, weekday |-> 6, month |-> 1],
     [valid |-> FALSE, hour |-> 0, weekday |-> 0, month |-> 1]}
CurrentLoads == {750}
HistoricalLoads == {<<>>, <<650, 701>>}

\* what request.get_json() gives predict: None (a JSON null body) or an
\* object holding some of the fields
\* (a field the body lacks has no value: one representative is kept)
PredictBodies ==
    LET all == {RequiredFields[i] : i \in 1..3}
        t0 == CHOOSE t \in Times : t.valid
    IN  {[json |-> "null", present |-> {}, current_time |-> t0,
          current_load |-> 750, historical_loads |-> <<>>]}
        \cup
        {b \in [json : {"object"}, present : SUBSET all,
                current_time : Times, current_load : CurrentLoads,
                historical_loads : HistoricalLoads] :
            b.present # all => (b.current_time = t0 /\ b.historical_loads = <<>>)}

\* what request.get_json() gives record_actual
RecordBodies ==
    {[json |-> "null", present |-> {}, predicted_load |-> 10, actual_load |-> 10]}
    \cup
    {b \in [json : {"object"}, present : SUBSET {"predicted_load", "actual_load"},
            predicted_load : PredictedLoads, actual_load : ActualLoads] :
        b.present # {"predicted_load", "actual_load"} => b.actual_load = 10}

\* ----------------------------------------------------- extract_features
\* a variant reading the oldest load instead of the most recent one
extract_features_oldest(current_time, current_load, historical_loads) ==
    IF ~current_time.valid
    THEN [raised |-> TRUE]
    ELSE LET hour_of_day == current_time.hour
             day_of_week == current_time.weekday
             n == Len(historical_loads)
         IN  [raised |-> FALSE,
              hour_of_day |-> hour_of_day,
              day_of_week |-> day_of_week,
              month |-> current_time.month,
              is_weekend |-> IF day_of_week >= 5 THEN 1 ELSE 0,
              is_business_hours |-> IF 9 <= hour_of_day /\ hour_of_day < 17 THEN 1 ELSE 0,
              load_1h_ago |-> IF n >= 1 THEN historical_loads[1] ELSE current_load,
              load_24h_ago |-> current_load,
              avg_load_last_7d |-> IF n > 0
                                   THEN [num |-> Sum(historical_loads), den |-> n]
                                   ELSE [num |-> current_load, den |-> 1]]

extract_features(current_time, current_load, historical_loads) ==
    IF ~current_time.valid
    THEN [raised |-> TRUE]
    ELSE LET hour_of_day == current_time.hour
             day_of_week == current_time.weekday
             n == Len(historical_loads)
         IN  [raised |-> FALSE,
              hour_of_day |-> hour_of_day,
              day_of_week |-> day_of_week,
              month |-> current_time.month,
              is_weekend |-> IF day_of_week >= 5 THEN 1 ELSE 0,
              is_business_hours |-> IF 9 <= hour_of_day /\ hour_of_day < 17 THEN 1 ELSE 0,
              load_1h_ago |-> IF n >= 1 THEN historical_loads[n] ELSE current_load,
              load_24h_ago |-> current_load,
              \* np.mean as the exact fraction num/den
              avg_load_last_7d |-> IF n > 0
                                   THEN [num |-> Sum(historical_loads), den |-> n]
                                   ELSE [num |-> current_load, den |-> 1]]

\* ---------------------------------------- calculate_confidence_interval
\* margin, doubled (so that 1.5 * rmse stays an integer)
Margin2_strict(rmse, confidence) ==
    IF confidence > 95 THEN 4 * rmse ELSE 3 * rmse

Margin2(rmse, confidence) ==
    IF confidence >= 95 THEN 4 * rmse ELSE 3 * rmse

\* (lower, upper), both doubled: lower = lower2 / 2, upper = upper2 / 2
ConfidenceInterval_noclamp(metadata, prediction, confidence) ==
    LET rmse == IF metadata.present THEN metadata.rmse ELSE DefaultRmse
        margin2 == Margin2(rmse, confidence)
    IN  [lower2 |-> 2 * prediction - margin2, upper2 |-> 2 * prediction + margin2]

ConfidenceInterval(metadata, prediction, confidence) ==
    LET rmse == IF metadata.present THEN metadata.rmse ELSE DefaultRmse
        margin2 == Margin2(rmse, confidence)
    IN  [lower2 |-> Max(0, 2 * prediction - margin2),
         upper2 |-> 2 * prediction + margin2]

calculate_confidence_interval(prediction, confidence) ==
    ConfidenceInterval(model_metadata, prediction, confidence)

\* --------------------------------------------------------------- /health
health_check ==
    /\ Serving
    /\ response' = [endpoint |-> "health", status |-> 200,
                    health |-> IF model # None THEN "healthy" ELSE "unhealthy",
                    model_loaded |-> model # None,
                    scaler_loaded |-> scaler # None]
    /\ request_lacks' = FALSE
    /\ UNCHANGED <<files, entry, loadVars, prediction_count, prediction_errors,
                   recorded, snapshot, ci, threadVars, otherVars>>

\* -------------------------------------------------------------- /metrics
\* round(avg_error, 2) of the window, 0 when it is empty
AvgError(errors) ==
    IF errors # <<>> THEN Round2(Sum(errors), Len(errors)) ELSE 0

get_metrics ==
    /\ Serving
    /\ response' = [endpoint |-> "metrics", status |-> 200,
                    predictions_served |-> prediction_count,
                    avg_error |-> AvgError(prediction_errors),
                    model_rmse |-> IF model_metadata.present
                                   THEN model_metadata.rmse ELSE 0]
    /\ snapshot' = prediction_count
    /\ request_lacks' = FALSE
    /\ UNCHANGED <<files, entry, loadVars, prediction_count, prediction_errors,
                   recorded, ci, threadVars, otherVars>>

\* -------------------------------------------------------------- /predict
\* the guard of line 201
ModelLoaded == model # None /\ scaler # None

ModelNotLoadedResponse ==
    [endpoint |-> "predict", status |-> 500, error |-> "Model not loaded"]

\* the except branch: any exception becomes a 500
PredictionFailed ==
    [endpoint |-> "predict", status |-> 500, error |-> "Prediction failed"]

\* the first required field the body lacks, 0 when it has them all
FirstMissing(present) ==
    IF \A i \in 1..3 : RequiredFields[i] \in present THEN 0
    ELSE CHOOSE i \in 1..3 :
           /\ RequiredFields[i] \notin present
           /\ \A j \in 1..(i - 1) : RequiredFields[j] \in present

\* prediction_count += 1
IncrementCount_capped(count) == (count + 1) % (MaxErrors + 1)

IncrementCount_skip(count) == count

IncrementCount(count) == count + 1

\* the response to a body, y being what model.predict returns for it
PredictResponse(body, y) ==
    IF ~ModelLoaded THEN ModelNotLoadedResponse
    ELSE IF body.json = "null" THEN PredictionFailed  \* field not in None: TypeError
    ELSE IF FirstMissing(body.present) # 0
    THEN [endpoint |-> "predict", status |-> 400,
          error |-> "Missing required field",
          field |-> RequiredFields[FirstMissing(body.present)]]
    ELSE IF extract_features(body.current_time, body.current_load,
                             body.historical_loads).raised
    THEN PredictionFailed
    ELSE LET interval == calculate_confidence_interval(y, 95)
         IN  [endpoint |-> "predict", status |-> 200,
              predicted_load |-> Round2(y, 1),
              confidence_lower |-> Round2(interval.lower2, 2),
              confidence_upper |-> Round2(interval.upper2, 2),
              prediction_horizon |-> "30_minutes"]

predict(body, y) ==
    /\ Serving
    /\ prediction_count < MaxPredictions
    /\ request_lacks' = (body.present # {RequiredFields[i] : i \in 1..3})
    /\ LET r == PredictResponse(body, y)
       IN  /\ response' = r
           /\ prediction_count' = IF r.status = 200
                                  THEN IncrementCount(prediction_count)
                                  ELSE prediction_count
    /\ UNCHANGED <<files, entry, loadVars, prediction_errors, recorded, snapshot,
                   ci, threadVars, otherVars>>

\* -------------------------------------------------------- /record_actual
\* if len(prediction_errors) > 1000: prediction_errors = prediction_errors[-1000:]
TrimWindow_none(errors) == errors

TrimWindow_head(errors) ==
    IF Len(errors) > MaxErrors THEN FirstN(errors, MaxErrors) ELSE errors

TrimWindow(errors) ==
    IF Len(errors) > MaxErrors THEN LastN(errors, MaxErrors) ELSE errors

record_actual(body) ==
    /\ Serving
    /\ Len(recorded) < MaxRecords
    /\ request_lacks' = (body.present # {"predicted_load", "actual_load"})
    /\ IF body.json = "null"
       THEN \* None.get: AttributeError, caught
            /\ response' = [endpoint |-> "record_actual", status |-> 500]
            /\ UNCHANGED <<prediction_errors, recorded>>
       ELSE IF body.present # {"predicted_load", "actual_load"}
       THEN /\ response' = [endpoint |-> "record_actual", status |-> 400]
            /\ UNCHANGED <<prediction_errors, recorded>>
       ELSE LET err == Abs(body.predicted_load - body.actual_load)
            IN  /\ prediction_errors' = TrimWindow(Append(prediction_errors, err))
                /\ recorded' = Append(recorded, err)
                /\ response' = [endpoint |-> "record_actual", status |-> 200,
                                result |-> "recorded", error |-> Round2(err, 1)]
    /\ UNCHANGED <<files, entry, loadVars, prediction_count, snapshot, ci,
                   threadVars, otherVars>>


\* ------------------------------------------------------- feature order
\* feature_cols: the column order train_model.py fits the scaler and model with
TrainingFeatureCols ==
    <<"hour_of_day", "day_of_week", "month", "is_weekend", "is_business_hours",
      "load_1h_ago", "load_24h_ago", "avg_load_last_7d">>

\* the order in which extract_features lays out the array it returns
ServingFeatureOrder ==
    <<"hour_of_day", "day_of_week", "month", "is_weekend", "is_business_hours",
      "load_1h_ago", "load_24h_ago", "avg_load_last_7d">>

NoFX == [called |-> FALSE]

\* no call of generate_training_data is in progress
NoGen == [active |-> FALSE, months |-> 0, now |-> 0, start_date |-> 0, i |-> 0, data |-> <<>>]

\* the parts of the state the service's own runs leave at their start values:
\* the artifacts come from this repository's train_model.py
OtherInit ==
    /\ count_read = [t \in Threads |-> 0]
    /\ fx = NoFX
    /\ trained_order = TrainingFeatureCols
    /\ np_state = 0
    /\ py_state = 0
    /\ runs = <<>>
    /\ gen = NoGen

Init ==
    /\ files \in [model : FileStates, scaler : FileStates, metadata : MetadataFiles]
    /\ entry \in {"main", "wsgi"}
    /\ load_pc = "unloaded"
    /\ model = None
    /\ scaler = None
    /\ model_metadata = NoMetadata
    /\ prediction_count = 0
    /\ prediction_errors = <<>>
    /\ request_lacks = FALSE
    /\ response = NoResponse
    /\ recorded = <<>>
    /\ snapshot = 0
    /\ ci = NoCI
    /\ pc = [t \in Threads |-> "idle"]
    /\ error = [t \in Threads |-> 0]
    /\ sliced = [t \in Threads |-> <<>>]
    /\ start_window = <<>>
    /\ OtherInit

Next ==
    \/ load_model
    \/ health_check
    \/ get_metrics
    \/ \E body \in PredictBodies, y \in Predictions : predict(body, y)
    \/ \E body \in RecordBodies : record_actual(body)

Spec == Init /\ [][Next]_vars
\* --------------------------------- calculate_confidence_interval, called alone
\* rmse values and predictions the direct calls range over (hundredths)
CIRmseValues == {1, 2, 7, 10}
CIPredictions == {-30, -5, 0, 3, 4, 20, 40}

\* The globals once load_model() has run to the end on model and scaler files
\* that load: the metadata is loaded, defaulted (file absent) or left None
\* (file unparsable, load_model returns False).
InitCI ==
    /\ files \in [model : {"ok"}, scaler : {"ok"},
                  metadata : {[state |-> "missing", rmse |-> 0],
                              [state |-> "corrupt", rmse |-> 0]}
                             \cup {[state |-> "ok", rmse |-> r] : r \in CIRmseValues}]
    /\ entry = "wsgi"
    /\ model = "loaded"
    /\ scaler = "loaded"
    /\ load_pc = IF files.metadata.state = "corrupt" THEN "failed" ELSE "ready"
    /\ model_metadata =
         IF files.metadata.state = "corrupt" THEN NoMetadata
         ELSE [present |-> TRUE,
               rmse |-> IF files.metadata.state = "missing" THEN 0
                        ELSE files.metadata.rmse]
    /\ prediction_count = 0
    /\ prediction_errors = <<>>
    /\ request_lacks = FALSE
    /\ response = NoResponse
    /\ recorded = <<>>
    /\ snapshot = 0
    /\ ci = NoCI
    /\ pc = [t \in Threads |-> "idle"]
    /\ error = [t \in Threads |-> 0]
    /\ sliced = [t \in Threads |-> <<>>]
    /\ start_window = <<>>
    /\ OtherInit

CallConfidenceInterval(prediction, confidence) ==
    /\ ci' = [called |-> TRUE, prediction |-> prediction, confidence |-> confidence,
              interval |-> calculate_confidence_interval(prediction, confidence)]
    /\ UNCHANGED <<files, entry, loadVars, prediction_count, prediction_errors,
                   request_lacks, response, recorded, snapshot, threadVars, otherVars>>

NextCI ==
    \E prediction \in CIPredictions, confidence \in ConfidenceLevels :
        CallConfidenceInterval(prediction, confidence)

SpecCI == InitCI /\ [][NextCI]_vars

\* ------------------------------------------- concurrent record_actual requests
\* The development server (app.run, threaded) handles each request in its own
\* thread; the handler takes no lock. A thread can be switched out between a
\* call's return and the next bytecode, and between the slice
\* prediction_errors[-1000:] and the store to the global name.
ValidRecordBodies ==
    {b \in RecordBodies :
        b.json = "object" /\ b.present = {"predicted_load", "actual_load"}}

InitConc ==
    /\ files = [model |-> "ok", scaler |-> "ok",
                metadata |-> [state |-> "missing", rmse |-> 0]]
    /\ entry = "main"
    /\ load_pc = "ready"
    /\ model = "loaded"
    /\ scaler = "loaded"
    /\ model_metadata = [present |-> TRUE, rmse |-> 0]
    /\ prediction_count = 0
    /\ prediction_errors \in
         SeqsUpTo({Abs(b.predicted_load - b.actual_load) : b \in ValidRecordBodies},
                  MaxErrors)
    /\ recorded = prediction_errors
    /\ start_window = prediction_errors
    /\ request_lacks = FALSE
    /\ response = NoResponse
    /\ snapshot = 0
    /\ ci = NoCI
    /\ pc = [t \in Threads |-> "idle"]
    /\ error = [t \in Threads |-> 0]
    /\ sliced = [t \in Threads |-> <<>>]
    /\ OtherInit

\* lines 274-283: the body is read and error computed
ThreadRequest(t, body) ==
    /\ pc[t] = "idle"
    /\ error' = [error EXCEPT ![t] = Abs(body.predicted_load - body.actual_load)]
    /\ pc' = [pc EXCEPT ![t] = "append"]
    /\ UNCHANGED <<files, entry, loadVars, prediction_count, prediction_errors,
                   request_lacks, response, recorded, snapshot, ci, sliced,
                   start_window, otherVars>>

\* line 284: prediction_errors.append(error)
ThreadAppend(t) ==
    /\ pc[t] = "append"
    /\ prediction_errors' = Append(prediction_errors, error[t])
    /\ recorded' = Append(recorded, error[t])
    /\ pc' = [pc EXCEPT ![t] = "check"]
    /\ UNCHANGED <<files, entry, loadVars, prediction_count, request_lacks, response,
                   snapshot, ci, error, sliced, start_window, otherVars>>

\* line 287: if len(prediction_errors) > 1000
ThreadCheck(t) ==
    /\ pc[t] = "check"
    /\ pc' = [pc EXCEPT ![t] = IF Len(prediction_errors) > MaxErrors
                               THEN "slice" ELSE "done"]
    /\ UNCHANGED <<files, entry, loadVars, prediction_count, prediction_errors,
                   request_lacks, response, recorded, snapshot, ci, error, sliced,
                   start_window, otherVars>>

\* line 288, right-hand side: prediction_errors[-1000:] builds a new list
ThreadSlice(t) ==
    /\ pc[t] = "slice"
    /\ sliced' = [sliced EXCEPT ![t] =
                    LastN(prediction_errors,
                          IF Len(prediction_errors) < MaxErrors
                          THEN Len(prediction_errors) ELSE MaxErrors)]
    /\ pc' = [pc EXCEPT ![t] = "store"]
    /\ UNCHANGED <<files, entry, loadVars, prediction_count, prediction_errors,
                   request_lacks, response, recorded, snapshot, ci, error,
                   start_window, otherVars>>

\* line 288, the store to the global name
ThreadStore(t) ==
    /\ pc[t] = "store"
    /\ prediction_errors' = sliced[t]
    /\ pc' = [pc EXCEPT ![t] = "done"]
    /\ UNCHANGED <<files, entry, loadVars, prediction_count, request_lacks, response,
                   recorded, snapshot, ci, error, sliced, start_window, otherVars>>

NextConc ==
    \E t \in Threads :
        \/ \E body \in ValidRecordBodies : ThreadRequest(t, body)
        \/ ThreadAppend(t)
        \/ ThreadCheck(t)
        \/ ThreadSlice(t)
        \/ ThreadStore(t)

SpecConc == InitConc /\ [][NextConc]_vars
\* ======================================================================
\* Properties
\* ======================================================================
\* A step that handled a request of the endpoint (every handler sets the
\* response; load_model, which leaves it alone, changes load_pc)
HandledStep(endpoint) == response'.endpoint = endpoint /\ load_pc' = load_pc

Min(a, b) == IF a <= b THEN a ELSE b

\* the rmse the confidence estimator works from
RmseInUse == IF model_metadata.present THEN model_metadata.rmse ELSE DefaultRmse

\* C1: every predict response that carries a prediction has confidence_lower >= 0,
\* whatever the model returned and whatever the rmse.
C1_LowerNonNegative ==
    (response.endpoint = "predict" /\ response.status = 200)
        => response.confidence_lower >= 0

\* C1 witness: a negative prediction was served, its lower bound clamped to 0
C1_Witness ==
    /\ response.endpoint = "predict"
    /\ response.status = 200
    /\ response.predicted_load < 0
    /\ response.confidence_lower = 0

\* the claim's margin, doubled: 2 * rmse at confidence >= 0.95, else 1.5 * rmse
ClaimedMargin2 == IF ci.confidence >= 95 THEN 4 * RmseInUse ELSE 3 * RmseInUse

\* C2 as stated: upper - lower == 2 * margin for every prediction and rmse
\* (all quantities doubled).
C2_WidthAlwaysTwoMargins ==
    ci.called => ci.interval.upper2 - ci.interval.lower2 = 2 * ClaimedMargin2

\* C2 amended: upper - lower == 2 * margin when prediction >= margin; when
\* prediction < margin the lower bound is clamped to 0 and the width is
\* prediction + margin, less than 2 * margin.
C2_WidthUnlessClamped ==
    ci.called =>
        IF 2 * ci.prediction >= ClaimedMargin2
        THEN ci.interval.upper2 - ci.interval.lower2 = 2 * ClaimedMargin2
        ELSE /\ ci.interval.lower2 = 0
             /\ ci.interval.upper2 - ci.interval.lower2
                  = 2 * ci.prediction + ClaimedMargin2
             /\ ci.interval.upper2 - ci.interval.lower2 < 2 * ClaimedMargin2

\* C2 witness: a call below 0.95 confidence whose prediction is under the margin
C2_Witness ==
    /\ ci.called
    /\ ci.confidence < 95
    /\ RmseInUse > 0
    /\ 0 < ci.prediction
    /\ 2 * ci.prediction < ClaimedMargin2

\* C3: after any sequence of completed record calls the window holds at most
\* the capacity.
C3_WindowBounded == Len(prediction_errors) <= MaxErrors

\* C3 witness: more calls than the capacity were accepted, the window is full
C3_Witness ==
    /\ Len(recorded) > MaxErrors
    /\ Len(prediction_errors) = MaxErrors

\* the errors of the last min(n, capacity) accepted calls, in call order
LastCalls == LastN(recorded, Min(Len(recorded), MaxErrors))

\* C4 as stated: the window is the last min(n, capacity) errors and metrics
\* reports their mean (0 when there are none).
C4_AvgIsExactMean ==
    /\ [](prediction_errors = LastCalls)
    /\ [][HandledStep("metrics") =>
            IF LastCalls = <<>> THEN response'.avg_error = 0
            ELSE response'.avg_error * Len(LastCalls) = Sum(LastCalls)]_vars

\* C4 amended: the window is the last min(n, capacity) errors in call order
\* and metrics reports their mean rounded to two decimals (0 when none).
C4_AvgIsRoundedMean ==
    /\ [](prediction_errors = LastCalls)
    /\ [][HandledStep("metrics") =>
            IF LastCalls = <<>> THEN response'.avg_error = 0
            ELSE LET n == Len(LastCalls)
                     a == response'.avg_error
                 IN  \* a is a nearest hundredth to Sum / n
                     /\ 2 * Abs(a * n - Sum(LastCalls)) <= n
                     /\ 2 * Abs(a * n - Sum(LastCalls)) = n => a % 2 = 0]_vars

\* C4 witness: one call past the capacity, the first error (the only zero one)
\* evicted, and metrics reporting the mean of the errors that are left
C4_Witness ==
    /\ Len(recorded) = MaxErrors + 1
    /\ recorded[1] = 0
    /\ \A i \in 2..Len(recorded) : recorded[i] = 1
    /\ prediction_errors = [i \in 1..MaxErrors |-> 1]
    /\ response.endpoint = "metrics"
    /\ response.avg_error = 1

\* a step in which a record call was accepted
RecordAccepted == Len(recorded') = Len(recorded) + 1

C6_ServedMonotonic ==
    /\ [][snapshot' >= snapshot]_vars
    /\ [][prediction_count' >= prediction_count]_vars
    /\ [][HandledStep("metrics") => response'.predictions_served = prediction_count]_vars
    /\ [][(RecordAccepted /\ Len(prediction_errors) = MaxErrors) =>
            prediction_count' = prediction_count]_vars

\* C6 witness: a snapshot above the window's capacity, taken after evictions
C6_Witness ==
    /\ response.endpoint = "metrics"
    /\ response.predictions_served > MaxErrors
    /\ Len(recorded) > MaxErrors

\* C7: health reports "healthy" only when the lifecycle is Ready (load_model
\* succeeded, model and scaler loaded); otherwise "unhealthy".
C7_HealthyOnlyWhenReady ==
    [][HandledStep("health") =>
         (response'.health = "healthy" <=> Lifecycle = "Ready")]_vars

\* the model or the scaler is missing or failed to load
ArtifactMissing ==
    \/ files.model # "ok"
    \/ files.scaler # "ok"
    \/ model = None
    \/ scaler = None

\* C8: with the model or the scaler missing or not loaded, every predict call
\* is answered 500 without a prediction and leaves counter and window alone.
C8_NoPredictionWithoutModel ==
    [][(HandledStep("predict") /\ ArtifactMissing) =>
         /\ response'.status = 500
         /\ response'.error = "Model not loaded"
         /\ prediction_count' = prediction_count
         /\ prediction_errors' = prediction_errors]_vars

\* C8 witness: the model loaded, the scaler file missing, a predict refused
C8_Witness ==
    /\ response.endpoint = "predict"
    /\ response.status = 500
    /\ model # None
    /\ files.scaler = "missing"
    /\ load_pc = "failed"

\* C9: with model and scaler loaded, a predict request lacking a required
\* field is answered 400 naming a field it lacks; the counter is unchanged.
C9_MissingFieldIs400 ==
    [][(HandledStep("predict") /\ ModelLoaded /\ request_lacks') =>
         /\ response'.status = 400
         /\ response'.field \in {RequiredFields[i] : i \in 1..3}
         /\ prediction_count' = prediction_count]_vars

\* the window a serial run of the threads' calls, in the given order, leaves
RECURSIVE SerialResult(_, _)
SerialResult(window, order) ==
    IF order = <<>> THEN window
    ELSE SerialResult(TrimWindow(Append(window, error[Head(order)])), Tail(order))

\* the orders in which the threads' calls can be run one after another
SerialOrders ==
    {o \in [1..NThreads -> Threads] : \A i, j \in 1..NThreads : o[i] = o[j] => i = j}

\* C10: once all concurrent record calls have completed, the window is the
\* one some serial order of the same calls produces.
C10_Serializable ==
    (\A t \in Threads : pc[t] = "done") =>
        \E o \in SerialOrders : prediction_errors = SerialResult(start_window, o)
\* ------------------------------------------------- concurrent predict requests
\* Each thread serves one predict request that passes validation, on the
\* loaded model. prediction_count += 1 (line 235) reads the global, adds one
\* and stores the sum: a thread can be switched out between read and store.
InitCount ==
    /\ files \in [model : {"ok"}, scaler : {"ok"},
                  metadata : {[state |-> "ok", rmse |-> r] : r \in RmseValues}]
    /\ entry = "main"
    /\ load_pc = "ready"
    /\ model = "loaded"
    /\ scaler = "loaded"
    /\ model_metadata = [present |-> TRUE, rmse |-> files.metadata.rmse]
    /\ prediction_count \in 0..MaxPredictions
    \* a metrics snapshot taken before the requests arrive
    /\ snapshot = prediction_count
    /\ prediction_errors = <<>>
    /\ recorded = <<>>
    /\ start_window = <<>>
    /\ request_lacks = FALSE
    /\ response = NoResponse
    /\ ci = NoCI
    /\ pc = [t \in Threads |-> "idle"]
    /\ error = [t \in Threads |-> 0]
    /\ sliced = [t \in Threads |-> <<>>]
    /\ OtherInit

\* lines 199-232: the request is validated and the prediction computed
ThreadPredict(t, body, y) ==
    /\ pc[t] = "idle"
    /\ PredictResponse(body, y).status = 200
    /\ pc' = [pc EXCEPT ![t] = "read_count"]
    /\ UNCHANGED <<files, entry, loadVars, prediction_count, prediction_errors,
                   request_lacks, response, recorded, snapshot, ci, error, sliced,
                   start_window, count_read, fx, trained_order, genVars>>

\* line 235, the read of the global prediction_count
ThreadReadCount(t) ==
    /\ pc[t] = "read_count"
    /\ count_read' = [count_read EXCEPT ![t] = prediction_count]
    /\ pc' = [pc EXCEPT ![t] = "store_count"]
    /\ UNCHANGED <<files, entry, loadVars, prediction_count, prediction_errors,
                   request_lacks, response, recorded, snapshot, ci, error, sliced,
                   start_window, fx, trained_order, genVars>>

\* line 235, the add and the store to the global
ThreadStoreCount(t) ==
    /\ pc[t] = "store_count"
    /\ prediction_count' = IncrementCount(count_read[t])
    /\ pc' = [pc EXCEPT ![t] = "done"]
    /\ UNCHANGED <<files, entry, loadVars, prediction_errors,
                   request_lacks, response, recorded, snapshot, ci, error, sliced,
                   start_window, count_read, fx, trained_order, genVars>>

NextCount ==
    \E t \in Threads :
        \/ \E body \in PredictBodies, y \in Predictions : ThreadPredict(t, body, y)
        \/ ThreadReadCount(t)
        \/ ThreadStoreCount(t)

SpecCount == InitCount /\ [][NextCount]_vars

\* C11: k concurrent requests that each increment the prediction counter
\* leave it exactly k higher than it started.
C11_NoLostIncrement ==
    (\A t \in Threads : pc[t] = "done") => prediction_count = snapshot + NThreads
\* ======================================================================
\* generate_data.py: the workload simulator
\* ======================================================================
\* Time is counted in whole hours since 2024-01-01T00:00, a Monday.
\* np.random.seed(42), random.seed(42)
Seed == 42
\* hours generated per month of data: stands for the 24 * 30 of line 91,
\* scaled down, and kept above the 24-hour lag so that rows survive dropna
GenHoursPerMonth == 26
\* runs of generate_training_data explored
MaxRuns == 2
\* df.shift(24)
LagDay == 24
\* rolling(window=24*7)
RollingWindow == 168
\* the months arguments and the wall-clock times (datetime.now()) explored
MonthsValues == {1, 2}
NowValues == {1447, 1451, 1452, 1462, 1571}

\* A seeded generator is a fixed function of its seed and of how many numbers
\* have been drawn from it; a draw is a quantile 0..99 of the unit interval.
NpDraw(pos) == (Seed * 17 + pos * 37) % 100
PyDraw(pos) == (Seed * 29 + pos * 61) % 100

\* uniform(a, b) at quantile u, in hundredths
Uniform(a, b, u) == 100 * a + (b - a) * u

\* calendar fields of a timestamp (exact from January to April 2024)
HourOf(h) == h % 24
WeekdayOf(h) == (h \div 24) % 7
MonthOf(h) == IF h < 744 THEN 1 ELSE IF h < 1440 THEN 2 ELSE IF h < 2184 THEN 3 ELSE 4

\* generate_base_load, u being the draw it makes; hundredths
generate_base_load(hour, day_of_week, is_weekend, is_business_hours, u) ==
    LET base == IF hour < 6 \/ hour >= 22 THEN Uniform(50, 100, u)
                ELSE IF hour < 9 THEN Uniform(200, 400, u)
                ELSE IF is_business_hours
                THEN IF hour = 12 THEN Uniform(1100, 1300, u)
                     ELSE Uniform(500, 1000, u)
                ELSE Uniform(150, 350, u)
    IN  IF is_weekend THEN Round2(base * 3, 10) ELSE base

\* add_noise with noise_percent = 20: value * (1 + uniform(-20, 20) / 100)
add_noise(value, u) == Round2(value * (200 + u), 250)

\* should_spike: random.random() < 0.02
should_spike(u) == u < 2

\* one pass of the loop of lines 97-138, for hour i of the series
GenRow(i, start_date, np, py) ==
    LET current_date == start_date + i
        hour == HourOf(current_date)
        day_of_week == WeekdayOf(current_date)
        is_weekend == day_of_week >= 5
        is_business_hours == 9 <= hour /\ hour < 17
        days == i \div 24
        base_load == generate_base_load(hour, day_of_week, is_weekend,
                                        is_business_hours, NpDraw(np))
        grown == Round2(base_load * (600 + days), 600)
        noisy == add_noise(grown, NpDraw(np + 1))
        spike == should_spike(PyDraw(py))
        load == IF spike THEN Round2(noisy * (150 + PyDraw(py + 1)), 50) ELSE noisy
    IN  [row |-> [timestamp |-> current_date,
                  hour_of_day |-> hour,
                  day_of_week |-> day_of_week,
                  month |-> MonthOf(current_date),
                  is_weekend |-> IF is_weekend THEN 1 ELSE 0,
                  is_business_hours |-> IF is_business_hours THEN 1 ELSE 0,
                  current_load |-> Max(0, load)],
         np |-> np + 2,
         py |-> IF spike THEN py + 2 ELSE py + 1]

\* lines 145-152: the lagged columns, and dropna removing the rows without them
WithLags(rows) ==
    LET loads == [k \in 1..Len(rows) |-> rows[k].current_load]
        lagged(k) ==
            LET n == IF k - 1 < RollingWindow THEN k - 1 ELSE RollingWindow
            IN  [timestamp |-> rows[k].timestamp,
                 hour_of_day |-> rows[k].hour_of_day,
                 day_of_week |-> rows[k].day_of_week,
                 month |-> rows[k].month,
                 is_weekend |-> rows[k].is_weekend,
                 is_business_hours |-> rows[k].is_business_hours,
                 current_load |-> rows[k].current_load,
                 load_1h_ago |-> loads[k - 1],
                 load_24h_ago |-> loads[k - LagDay],
                 avg_load_last_7d |->
                     [num |-> Sum(SubSeq(loads, k - n, k - 1)), den |-> n]]
    IN  IF Len(rows) <= LagDay THEN <<>>
        ELSE [j \in 1..(Len(rows) - LagDay) |-> lagged(j + LagDay)]

\* The interpreter has imported generate_data (lines 22-24 seed both generators)
InitGen ==
    /\ np_state = 0
    /\ py_state = 0
    /\ runs = <<>>
    /\ gen = NoGen
    /\ files = [model |-> "missing", scaler |-> "missing",
                metadata |-> [state |-> "missing", rmse |-> 0]]
    /\ entry = "main"
    /\ load_pc = "unloaded"
    /\ model = None
    /\ scaler = None
    /\ model_metadata = NoMetadata
    /\ prediction_count = 0
    /\ prediction_errors = <<>>
    /\ request_lacks = FALSE
    /\ response = NoResponse
    /\ recorded = <<>>
    /\ snapshot = 0
    /\ ci = NoCI
    /\ pc = [t \in Threads |-> "idle"]
    /\ error = [t \in Threads |-> 0]
    /\ sliced = [t \in Threads |-> <<>>]
    /\ start_window = <<>>
    /\ count_read = [t \in Threads |-> 0]
    /\ fx = NoFX
    /\ trained_order = TrainingFeatureCols

serviceVars == <<files, entry, loadVars, prediction_count, prediction_errors,
                 request_lacks, response, recorded, snapshot, ci, threadVars,
                 count_read, fx, trained_order>>

\* generate_training_data(months) is called at wall-clock time now (lines
\* 88-95); the clock does not run backwards between calls
generate_training_data(months, now) ==
    /\ ~gen.active
    /\ Len(runs) < MaxRuns
    /\ runs # <<>> => now >= runs[Len(runs)].now
    /\ gen' = [active |-> TRUE, months |-> months, now |-> now,
               start_date |-> now - 24 * 30 * months, i |-> 0, data |-> <<>>]
    /\ UNCHANGED <<np_state, py_state, runs, serviceVars>>

\* one pass of the loop of lines 97-138
GenLoop ==
    /\ gen.active
    /\ gen.i < GenHoursPerMonth * gen.months
    /\ LET r == GenRow(gen.i, gen.start_date, np_state, py_state)
       IN  /\ gen' = [gen EXCEPT !.i = gen.i + 1, !.data = Append(gen.data, r.row)]
           /\ np_state' = r.np
           /\ py_state' = r.py
    /\ UNCHANGED <<runs, serviceVars>>

\* lines 140-180: the DataFrame is built, lagged, stripped of NaN rows and returned
GenReturn ==
    /\ gen.active
    /\ gen.i = GenHoursPerMonth * gen.months
    /\ runs' = Append(runs, [months |-> gen.months, now |-> gen.now,
                             df |-> WithLags(gen.data)])
    /\ gen' = NoGen
    /\ UNCHANGED <<np_state, py_state, serviceVars>>

\* a new process is started: importing the module seeds the generators again
NewProcess ==
    /\ ~gen.active
    /\ runs # <<>>
    /\ Len(runs) < MaxRuns
    /\ np_state # 0
    /\ np_state' = 0
    /\ py_state' = 0
    /\ UNCHANGED <<runs, gen, serviceVars>>

NextGen ==
    \/ \E months \in MonthsValues, now \in NowValues :
           generate_training_data(months, now)
    \/ GenLoop
    \/ GenReturn
    \/ NewProcess

SpecGen == InitGen /\ [][NextGen]_vars

\* C12: two runs of generate_training_data with the same seed and the same
\* parameters, in one process or in two, return the same series.
C12_Deterministic ==
    \A i, j \in 1..Len(runs) :
        runs[i].months = runs[j].months => runs[i].df = runs[j].df
\* ======================================================================
\* Feature order: train_model.py against app.py
\* ======================================================================
\* a column order other than that of app.py: a model.pkl fitted by a training
\* script whose feature_cols lists the two lag columns the other way round
ForeignFeatureCols ==
    <<"hour_of_day", "day_of_week", "month", "is_weekend", "is_business_hours",
      "load_24h_ago", "load_1h_ago", "avg_load_last_7d">>

TrainedOrders == {TrainingFeatureCols, ForeignFeatureCols}

\* the service starts with the model and the scaler on disk, the model
\* fitted with either column order
InitOrder ==
    /\ files \in [model : {"ok"}, scaler : {"ok"}, metadata : MetadataFiles]
    /\ entry \in {"main", "wsgi"}
    /\ load_pc = "unloaded"
    /\ model = None
    /\ scaler = None
    /\ model_metadata = NoMetadata
    /\ prediction_count = 0
    /\ prediction_errors = <<>>
    /\ request_lacks = FALSE
    /\ response = NoResponse
    /\ recorded = <<>>
    /\ snapshot = 0
    /\ ci = NoCI
    /\ pc = [t \in Threads |-> "idle"]
    /\ error = [t \in Threads |-> 0]
    /\ sliced = [t \in Threads |-> <<>>]
    /\ start_window = <<>>
    /\ count_read = [t \in Threads |-> 0]
    /\ fx = NoFX
    /\ trained_order \in TrainedOrders
    /\ np_state = 0
    /\ py_state = 0
    /\ runs = <<>>
    /\ gen = NoGen

SpecOrder == InitOrder /\ [][Next]_vars

\* C13: when the model was trained with a feature order other than the one
\* extract_features produces, load_model fails (the service never becomes
\* ready) and no predict call is answered with a prediction.
C13_MismatchIsFatal ==
    trained_order # ServingFeatureOrder =>
        /\ load_pc # "ready"
        /\ ~(response.endpoint = "predict" /\ response.status = 200)
\* ======================================================================
\* extract_features called directly
\* ======================================================================
\* longest history explored
MaxHistory == 3
\* the arguments explored: timestamps that parse (a Sunday afternoon, a
\* Wednesday night) and one that does not; loads, zero among them
FeatTimes ==
    {[valid |-> TRUE, hour |-> 14, weekday |-> 6, month |-> 1],
     [valid |-> TRUE, hour |-> 3, weekday |-> 2, month |-> 11],
     [valid |-> FALSE, hour |-> 0, weekday |-> 0, month |-> 1]}
FeatLoads == {0, 701, 750}
FeatHistoryLoads == {0, 650}

InitFeat ==
    /\ files \in [model : FileStates, scaler : FileStates, metadata : MetadataFiles]
    /\ entry = "main"
    /\ load_pc = "unloaded"
    /\ model = None
    /\ scaler = None
    /\ model_metadata = NoMetadata
    /\ prediction_count = 0
    /\ prediction_errors = <<>>
    /\ request_lacks = FALSE
    /\ response = NoResponse
    /\ recorded = <<>>
    /\ snapshot = 0
    /\ ci = NoCI
    /\ pc = [t \in Threads |-> "idle"]
    /\ error = [t \in Threads |-> 0]
    /\ sliced = [t \in Threads |-> <<>>]
    /\ start_window = <<>>
    /\ OtherInit

CallExtractFeatures(current_time, current_load, historical_loads) ==
    /\ fx' = [called |-> TRUE,
              current_time |-> current_time,
              current_load |-> current_load,
              historical_loads |-> historical_loads,
              features |-> extract_features(current_time, current_load,
                                            historical_loads)]
    /\ UNCHANGED <<files, entry, loadVars, prediction_count, prediction_errors,
                   request_lacks, response, recorded, snapshot, ci, threadVars,
                   count_read, trained_order, genVars>>

NextFeat ==
    \E current_time \in FeatTimes, current_load \in FeatLoads,
       historical_loads \in SeqsUpTo(FeatHistoryLoads, MaxHistory) :
        CallExtractFeatures(current_time, current_load, historical_loads)

SpecFeat == InitFeat /\ [][NextFeat]_vars

\* C14: for a timestamp that parses, any current_load and any history,
\* extract_features returns load_1h_ago = the last element of the history and
\* avg_load_last_7d = its arithmetic mean when the history is non-empty, both
\* = current_load when it is empty, and load_24h_ago = current_load always;
\* it raises only when the timestamp does not parse, whatever the history.
C14_HistoryFeatures ==
    fx.called =>
        LET h == fx.historical_loads
            n == Len(h)
            f == fx.features
        IN  /\ f.raised <=> ~fx.current_time.valid
            /\ ~f.raised =>
                  /\ f.load_24h_ago = fx.current_load
                  /\ n = 0 =>
                        /\ f.load_1h_ago = fx.current_load
                        /\ f.avg_load_last_7d.num = fx.current_load * f.avg_load_last_7d.den
                  /\ n > 0 =>
                        /\ f.load_1h_ago = h[n]
                        /\ f.avg_load_last_7d.num * n = Sum(h) * f.avg_load_last_7d.den
                  /\ f.avg_load_last_7d.den > 0

\* C14 witness: a call with an empty history and a non-zero current_load has
\* returned, all three load features equal to current_load
C14_Witness ==
    /\ fx.called
    /\ Len(fx.historical_loads) = 0
    /\ fx.current_load = 750
    /\ ~fx.features.raised
    /\ fx.features.load_1h_ago = 750
    /\ fx.features.load_24h_ago = 750
    /\ fx.features.avg_load_last_7d = [num |-> 750, den |-> 1]
====
